---- MODULE Spec2Model ----
(***************************************************************************)
(* Model of cmd/resolver/resolver.py: the resolver of a playable media URL *)
(* for a feed entry.  download(feed_id, video_id) validates its inputs,    *)
(* reads the feed's metadata from the Feeds table, adds one to the feed's  *)
(* counter of the UTC day in the ResolveCounters table, enforces the daily *)
(* quota of anonymous feeds, builds the provider URL, asks the extraction  *)
(* engine for the candidate formats and chooses one URL among them.        *)
(*                                                                         *)
(* Several calls run concurrently (one per request); the two tables are    *)
(* the only state they share.  The tables outlive a call: the initial      *)
(* states are the tables as earlier requests of the same day left them.    *)
(***************************************************************************)
EXTENDS Integers, Sequences, FiniteSets, TLC

(***************************************************************************)
(* Bounds of the model.                                                    *)
(***************************************************************************)
MaxCalls == 2        \* calls of download started in one behaviour
MaxNow == 2          \* last tick of the clock
TicksPerDay == 2     \* clock ticks in one UTC day
SeedCount == 99      \* least Count of a record the day's earlier requests left
MaxFormats == 3      \* longest list of formats the extraction engine reports

(***************************************************************************)
(* Program constants.                                                      *)
(***************************************************************************)
ANONYMOUS_FEED_REQUESTS_LIMIT == 100
ThreeMonths == 3     \* relativedelta(months=3)
TicksPerMonth == 30 * TicksPerDay

\* The calls of download that run concurrently.
Procs == {"c1", "c2"}

(***************************************************************************)
(* Strings the code takes apart are sequences of characters.               *)
(***************************************************************************)
Mp4Only == <<".", "m", "p", "4">>                 \* ".mp4"
XyzMp4 == <<"x", "y", "z", ".", "m", "p", "4">>   \* "xyz.mp4"
HttpPrefix == <<"h", "t", "t", "p", "-">>         \* "http-"
Http720 == HttpPrefix \o <<"7", "2", "0", "p">>   \* "http-720p"
Hls720 == <<"h", "l", "s", "-", "7", "2", "0", "p">>

\* str.rfind(c): the last position of c in s, 0 when there is none (1-based).
RFind(s, c) ==
    LET hits == {i \in 1..Len(s) : s[i] = c}
    IN  IF hits = {} THEN 0 ELSE CHOOSE i \in hits : \A j \in hits : j <= i

\* os.path.splitext(p)[0]: p without its extension.  The extension starts at
\* the last dot of the last path component, unless only dots precede it there.
splitext(p) ==
    LET sepIndex == RFind(p, "/")
        dotIndex == RFind(p, ".")
    IN  IF /\ dotIndex > sepIndex
           /\ \E i \in (sepIndex + 1)..(dotIndex - 1) : p[i] # "."
        THEN SubSeq(p, 1, dotIndex - 1)
        ELSE p

\* str.startswith(prefix)
startswith(s, prefix) ==
    /\ Len(s) >= Len(prefix)
    /\ SubSeq(s, 1, Len(prefix)) = prefix

(***************************************************************************)
(* Results of a call: a URL, or the exception it raised.                   *)
(***************************************************************************)
NoUrl == <<>>
Ok(u) == [err |-> "none", url |-> u]
Raise(e) == [err |-> e, url |-> NoUrl]
NoResult == [err |-> "pending", url |-> NoUrl]

(***************************************************************************)
(* The tables.                                                             *)
(***************************************************************************)
\* The Feeds table: a record per known feed, with the projected attributes
\* under their lower-case keys.
FeedsTable ==
    [abc |-> [provider |-> "youtube", format |-> "video", quality |-> "high",
              featurelevel |-> 0],
     pro |-> [provider |-> "vimeo", format |-> "video", quality |-> "low",
              featurelevel |-> 1],
     dm  |-> [provider |-> "dailymotion", format |-> "video", quality |-> "high",
              featurelevel |-> 0]]

NoItem == [provider |-> "", format |-> "", quality |-> "", featurelevel |-> -1]

\* url_formats: provider -> URL template
url_formats ==
    [youtube |-> "https://youtube.com/watch?v={}",
     vimeo   |-> "https://vimeo.com/{}"]

\* The arguments requests come with.
Requests ==
    {<<"", XyzMp4>>, <<"abc", <<>>>>, <<"abc", Mp4Only>>, <<"abc", XyzMp4>>,
     <<"pro", XyzMp4>>, <<"dm", XyzMp4>>, <<"gone", XyzMp4>>}

\* The day of a clock read once, when the module is loaded.
DayOf_at_load(t) == 0

\* now.strftime('%Y%m%d'): the UTC day of a tick.
DayOf(t) == t \div TicksPerDay

\* int((now + relativedelta(months=3)).timestamp())
ExpiresOf(t) == t + ThreeMonths * TicksPerMonth

(***************************************************************************)
(* The extraction engine and the choice of one URL.                        *)
(*                                                                         *)
(* A format the engine reports is a record; a key the engine left out has  *)
(* the value Absent.  The engine lists formats from worst to best.         *)
(***************************************************************************)
Absent == <<>>

Format(ext, format_id, width, vcodec, acodec, url, frag) ==
    [ext |-> ext, format_id |-> format_id, width |-> width, vcodec |-> vcodec,
     acodec |-> acodec, url |-> url, fragment_base_url |-> frag]

\* ytdl.build_format_selector(fmt)(info): what the engine's selector yields
\* for the expression, or the exception it raises.  A filter [ext=mp4] keeps
\* the mp4 formats.  best/worst yields the last/first format that has both a
\* video and an audio stream; when formats are left but none has both, it
\* reads ctx['incomplete_formats'], a key the info dict does not have.
\* bestaudio/worstaudio yields the last/first format without a video stream.
build_format_selector(fmt, info) ==
    LET IsMp4(x) == x.ext = "mp4"
        IsAudioVideo(x) == x.vcodec # "none" /\ x.acodec # "none"
        IsAudio(x) == x.vcodec = "none"
        is_filtered == fmt \in {"best[ext=mp4]", "worst[ext=mp4]"}
        is_best == fmt \in {"best[ext=mp4]", "bestaudio"}
        formats == IF is_filtered THEN SelectSeq(info.formats, IsMp4)
                   ELSE info.formats
        pool == IF is_filtered THEN SelectSeq(formats, IsAudioVideo)
                ELSE SelectSeq(formats, IsAudio)
    IN  IF pool # <<>>
        THEN [err |-> "none",
              yields |-> <<IF is_best THEN pool[Len(pool)] ELSE pool[1]>>]
        ELSE IF is_filtered /\ formats # <<>>
        THEN [err |-> "KeyError", yields |-> <<>>]
        ELSE [err |-> "none", yields |-> <<>>]

\* The format expression with best and worst exchanged.
yt_format_spec_swapped(metadata) ==
    LET is_video == metadata.format = "video"
        is_high_quality == metadata.quality = "high"
    IN  IF is_video
        THEN (IF is_high_quality THEN "worst[ext=mp4]" ELSE "best[ext=mp4]")
        ELSE (IF is_high_quality THEN "worstaudio" ELSE "bestaudio")

\* The format expression with every format but audio taken for video.
yt_format_spec_not_audio(metadata) ==
    LET is_video == metadata.format # "audio"
        is_high_quality == metadata.quality = "high"
    IN  IF is_video
        THEN (IF is_high_quality THEN "best[ext=mp4]" ELSE "worst[ext=mp4]")
        ELSE (IF is_high_quality THEN "bestaudio" ELSE "worstaudio")

\* The format expression of the stored format and quality.
yt_format_spec(metadata) ==
    LET is_video == metadata.format = "video"
        is_high_quality == metadata.quality = "high"
    IN  IF is_video
        THEN (IF is_high_quality THEN "best[ext=mp4]" ELSE "worst[ext=mp4]")
        ELSE (IF is_high_quality THEN "bestaudio" ELSE "worstaudio")

\* _yt_choose_url with the url of the selected format tried first.
_yt_choose_url_url_first(info, metadata) ==
    LET selector == build_format_selector(yt_format_spec(metadata), info)
    IN  IF selector.err # "none" THEN Raise(selector.err)
        ELSE IF selector.yields = <<>> THEN Raise("StopIteration")
        ELSE LET selected == selector.yields[1]
             IN  IF selected.url # Absent
                 THEN Ok(selected.url)
                 ELSE Ok(selected.fragment_base_url)

\* _yt_choose_url: next() of what the selector yields, then the fragment base
\* URL of the selected format when it has one, its url otherwise.
_yt_choose_url(info, metadata) ==
    LET selector == build_format_selector(yt_format_spec(metadata), info)
    IN  IF selector.err # "none" THEN Raise(selector.err)
        ELSE IF selector.yields = <<>> THEN Raise("StopIteration")
        ELSE LET selected == selector.yields[1]
             IN  IF selected.fragment_base_url # Absent
                 THEN Ok(selected.fragment_base_url)
                 ELSE IF selected.url = Absent THEN Raise("KeyError")
                      ELSE Ok(selected.url)

\* sorted(fmt_list, key=width, reverse=True): a stable sort, formats of equal
\* width keep their order.
RECURSIVE sorted_by_width(_)
sorted_by_width(s) ==
    IF s = <<>> THEN <<>>
    ELSE LET rest == sorted_by_width(SubSeq(s, 1, Len(s) - 1))
             x == s[Len(s)]
             IsWider(y) == y.width >= x.width
             IsNarrower(y) == y.width < x.width
         IN  SelectSeq(rest, IsWider) \o <<x>> \o SelectSeq(rest, IsNarrower)

\* The filter of _vimeo_choose_url: mp4 over direct HTTP.
vimeo_fmt_list(info) ==
    LET Keep(x) == x.ext = "mp4" /\ startswith(x.format_id, HttpPrefix)
    IN  SelectSeq(info.formats, Keep)

\* The item with the two ends of the order exchanged.
vimeo_item_swapped(ordered, is_high_quality) ==
    IF is_high_quality THEN ordered[Len(ordered)] ELSE ordered[1]

\* ordered[0] if is_high_quality else ordered[-1]
vimeo_item(ordered, is_high_quality) ==
    IF is_high_quality THEN ordered[1] ELSE ordered[Len(ordered)]

\* _vimeo_choose_url with the fragment base URL preferred, as for youtube.
_vimeo_choose_url_fragment(info, metadata) ==
    LET ordered == sorted_by_width(vimeo_fmt_list(info))
        is_high_quality == metadata.quality = "high"
    IN  IF ordered = <<>> THEN Raise("IndexError")
        ELSE LET item == vimeo_item(ordered, is_high_quality)
             IN  IF item.fragment_base_url # Absent
                 THEN Ok(item.fragment_base_url)
                 ELSE Ok(item.url)

\* _vimeo_choose_url: the url of the widest or narrowest format of the filter.
_vimeo_choose_url(info, metadata) ==
    LET ordered == sorted_by_width(vimeo_fmt_list(info))
        is_high_quality == metadata.quality = "high"
    IN  IF ordered = <<>> THEN Raise("IndexError")
        ELSE LET item == vimeo_item(ordered, is_high_quality)
             IN  IF item.url = Absent THEN Raise("KeyError") ELSE Ok(item.url)

\* The dispatch with an exception of the strategy printed and not raised
\* again: the call returns None.
choose_url_swallow(info, metadata) ==
    LET r == IF metadata.provider = "youtube" THEN _yt_choose_url(info, metadata)
             ELSE IF metadata.provider = "vimeo" THEN _vimeo_choose_url(info, metadata)
             ELSE Raise("ValueError")
    IN  IF r.err = "none" THEN r ELSE Ok(NoUrl)

\* The dispatch of _resolve on the provider.
choose_url(info, metadata) ==
    IF metadata.provider = "youtube" THEN _yt_choose_url(info, metadata)
    ELSE IF metadata.provider = "vimeo" THEN _vimeo_choose_url(info, metadata)
    ELSE Raise("ValueError")

\* What the engine reports for a URL: one of these replies, or an error.
YtMp4 == Format("mp4", <<"1", "8">>, 640, "avc1", "mp4a", <<"yt", "18">>, Absent)
YtDash == Format("webm", <<"2", "5", "1">>, 0, "none", "opus", <<"yt", "251">>,
                 <<"yt", "251", "frag">>)
VimeoLow == Format("mp4", HttpPrefix \o <<"3", "6", "0", "p">>, 640, "avc1", "mp4a",
                   <<"vimeo", "360">>, Absent)
VimeoHigh == Format("mp4", Http720, 1280, "avc1", "mp4a", <<"vimeo", "720">>, Absent)
VimeoHls == Format("mp4", Hls720, 1280, "avc1", "mp4a", <<"vimeo", "hls">>, Absent)

EngineReplies(provider) ==
    IF provider = "youtube"
    THEN {[formats |-> <<YtDash, YtMp4>>], [formats |-> <<YtDash>>]}
    ELSE {[formats |-> <<VimeoLow, VimeoHigh, VimeoHls>>], [formats |-> <<VimeoHls>>]}

NoInfo == [formats |-> <<>>]

(***************************************************************************)
(* The ResolveCounters table: a record [Count, Expires] per key            *)
(* <<FeedID, Day>> that was ever updated.                                  *)
(***************************************************************************)
Days == 0..DayOf(MaxNow)
Keys == (DOMAIN FeedsTable) \X Days

\* update_item as 'ADD #count :one SET #exp = :ttl' would do it.
update_item_overwrite(table, key, ttl) ==
    IF key \in DOMAIN table
    THEN [table EXCEPT ![key] = [Count |-> @.Count + 1, Expires |-> ttl]]
    ELSE table @@ (key :> [Count |-> 1, Expires |-> ttl])

\* update_item as a put of a fresh record would do it.
update_item_put(table, key, ttl) ==
    IF key \in DOMAIN table
    THEN [table EXCEPT ![key] = [Count |-> 1, Expires |-> @.Expires]]
    ELSE table @@ (key :> [Count |-> 1, Expires |-> ttl])

\* update_item with a condition that stops the count at the limit.
update_item_capped(table, key, ttl) ==
    IF key \in DOMAIN table
    THEN [table EXCEPT ![key] =
             [Count |-> IF @.Count >= ANONYMOUS_FEED_REQUESTS_LIMIT
                        THEN @.Count ELSE @.Count + 1,
              Expires |-> @.Expires]]
    ELSE table @@ (key :> [Count |-> 1, Expires |-> ttl])

\* update_item with 'ADD #count :one SET #exp = if_not_exists(#exp, :ttl)':
\* one atomic update of the record of the key, created when it is missing.
update_item(table, key, ttl) ==
    IF key \in DOMAIN table
    THEN [table EXCEPT ![key] = [Count |-> @.Count + 1, Expires |-> @.Expires]]
    ELSE table @@ (key :> [Count |-> 1, Expires |-> ttl])

\* The quota rule with the limit applied to every tier.
quota_exceeded_any_level(cnt, level) ==
    cnt > ANONYMOUS_FEED_REQUESTS_LIMIT

\* The quota rule with the comparison off by one.
quota_exceeded_at_limit(cnt, level) ==
    cnt >= ANONYMOUS_FEED_REQUESTS_LIMIT /\ level = 0

\* The quota rule with a test of the level that no stored level passes.
quota_exceeded_never(cnt, level) ==
    cnt > ANONYMOUS_FEED_REQUESTS_LIMIT /\ level < 0

\* The quota rule with the limit one too high.
quota_exceeded_above_limit(cnt, level) ==
    cnt > ANONYMOUS_FEED_REQUESTS_LIMIT + 1 /\ level = 0

\* The quota rule of download.
quota_exceeded(cnt, level) ==
    cnt > ANONYMOUS_FEED_REQUESTS_LIMIT /\ level = 0

\* tpl.format(video_id)
format_url(tpl, vid) == <<tpl, vid>>

(***************************************************************************)
(* State.                                                                  *)
(***************************************************************************)
VARIABLES
    now,            \* the clock, in ticks (datetime.utcnow())
    counter_table,  \* the ResolveCounters table
    pc,             \* where each call of download stands
    feed_id,        \* its argument feed_id
    video_arg,      \* its argument video_id, as passed
    video_id,       \* video_id once the extension is removed
    item,           \* the metadata _get_metadata returned
    count,          \* the count _update_resolve_counter returned
    key,            \* the key of the record it updated
    expires,        \* the :ttl it passed to the update
    url,            \* the provider URL built
    info,           \* what extract_info returned
    result,         \* how the call ended
    trace,          \* the calls to the stores and the engine it made, in order
    started,        \* calls of download started so far
    calls,          \* per key, the updates of its record so far in the day
    first_expires,  \* per key, the :ttl of the first update
    returned,       \* per key, the counts this behaviour's updates returned
    sel             \* a run of the selection alone (SelSpec)

callvars == <<pc, feed_id, video_arg, video_id, item, count, key, expires, url, info,
              result, trace>>
storevars == <<counter_table, calls, first_expires, returned>>
vars == <<now, counter_table, pc, feed_id, video_arg, video_id, item, count, key,
          expires, url, info, result, trace, started, calls, first_expires, returned, sel>>

NoKey == <<"", -1>>
NoSel == [pc |-> "off", provider |-> "", info |-> NoInfo, format |-> "",
          quality |-> "", result |-> NoResult]

\* The tables earlier requests of day 0 can have left: for each feed, no
\* record yet, or a record with SeedCount or SeedCount + 1 updates, the first
\* one at tick 0.
SeededFeeds == {"abc", "pro"}
SeedCounts == {SeedCount, SeedCount + 1}
SeededTables ==
    UNION {[{<<f, 0>> : f \in S} -> [Count : SeedCounts, Expires : {ExpiresOf(0)}]] :
              S \in SUBSET SeededFeeds}

Init ==
    /\ now = 0
    /\ counter_table \in SeededTables
    /\ calls = [k \in Keys |-> IF k \in DOMAIN counter_table
                               THEN counter_table[k].Count ELSE 0]
    /\ first_expires = [k \in Keys |-> IF k \in DOMAIN counter_table
                                       THEN counter_table[k].Expires ELSE -1]
    /\ returned = [k \in Keys |-> <<>>]
    /\ pc = [p \in Procs |-> "idle"]
    /\ feed_id = [p \in Procs |-> ""]
    /\ video_arg = [p \in Procs |-> <<>>]
    /\ video_id = [p \in Procs |-> <<>>]
    /\ item = [p \in Procs |-> NoItem]
    /\ count = [p \in Procs |-> 0]
    /\ key = [p \in Procs |-> NoKey]
    /\ expires = [p \in Procs |-> -1]
    /\ url = [p \in Procs |-> NoUrl]
    /\ info = [p \in Procs |-> NoInfo]
    /\ result = [p \in Procs |-> NoResult]
    /\ trace = [p \in Procs |-> <<>>]
    /\ started = 0
    /\ sel = NoSel

(***************************************************************************)
(* The steps of a call.                                                    *)
(***************************************************************************)
\* A call ends: its result is known.
Finish(p, r) ==
    /\ pc' = [pc EXCEPT ![p] = "done"]
    /\ result' = [result EXCEPT ![p] = r]

\* download up to the call of _get_metadata: the checks of the arguments.
download(p, f, v) ==
    /\ pc[p] = "idle"
    /\ started < MaxCalls
    /\ started' = started + 1
    /\ feed_id' = [feed_id EXCEPT ![p] = f]
    /\ video_arg' = [video_arg EXCEPT ![p] = v]
    /\ IF f = ""
       THEN /\ Finish(p, Raise("InvalidUsage"))
            /\ UNCHANGED video_id
       ELSE /\ video_id' = [video_id EXCEPT ![p] = splitext(v)]
            /\ IF splitext(v) = <<>>
               THEN Finish(p, Raise("InvalidUsage"))
               ELSE /\ pc' = [pc EXCEPT ![p] = "get_metadata"]
                    /\ UNCHANGED result
    /\ UNCHANGED <<now, storevars, item, count, key, expires, url, info, trace, sel>>

\* _get_metadata: the read of the Feeds table; response['Item'] is missing
\* when the table has no record of the feed.
_get_metadata(p) ==
    /\ pc[p] = "get_metadata"
    /\ trace' = [trace EXCEPT ![p] = Append(@, "get_item")]
    /\ IF feed_id[p] \in DOMAIN FeedsTable
       THEN /\ item' = [item EXCEPT ![p] = FeedsTable[feed_id[p]]]
            /\ pc' = [pc EXCEPT ![p] = "update_counter"]
            /\ UNCHANGED result
       ELSE /\ Finish(p, Raise("KeyError"))
            /\ UNCHANGED item
    /\ UNCHANGED <<now, storevars, feed_id, video_arg, video_id, count, key, expires,
                   url, info, started, sel>>

\* _update_resolve_counter: the clock read, the one update_item call for the
\* record of (feed, today) and the Count it returns.
_update_resolve_counter(p) ==
    /\ pc[p] = "update_counter"
    /\ LET k == <<feed_id[p], DayOf(now)>>
           table == update_item(counter_table, k, ExpiresOf(now))
       IN  /\ counter_table' = table
           /\ count' = [count EXCEPT ![p] = table[k].Count]
           /\ key' = [key EXCEPT ![p] = k]
           /\ calls' = [calls EXCEPT ![k] = @ + 1]
           /\ first_expires' = [first_expires EXCEPT ![k] =
                                   IF calls[k] = 0 THEN ExpiresOf(now) ELSE @]
           /\ returned' = [returned EXCEPT ![k] = Append(@, table[k].Count)]
           /\ expires' = [expires EXCEPT ![p] = ExpiresOf(now)]
    /\ trace' = [trace EXCEPT ![p] = Append(@, "update_item")]
    /\ pc' = [pc EXCEPT ![p] = "check_quota"]
    /\ UNCHANGED <<now, feed_id, video_arg, video_id, item, url, info, result,
                   started, sel>>

\* download after the counter update: the quota check, then the provider URL.
check_quota(p) ==
    /\ pc[p] = "check_quota"
    /\ IF quota_exceeded(count[p], item[p].featurelevel)
       THEN /\ Finish(p, Raise("QuotaExceeded"))
            /\ UNCHANGED url
       ELSE IF item[p].provider \notin DOMAIN url_formats
       THEN /\ Finish(p, Raise("KeyError"))
            /\ UNCHANGED url
       ELSE IF url_formats[item[p].provider] = ""
       THEN /\ Finish(p, Raise("InvalidUsage"))
            /\ UNCHANGED url
       ELSE /\ url' = [url EXCEPT ![p] =
                          format_url(url_formats[item[p].provider], video_id[p])]
            /\ pc' = [pc EXCEPT ![p] = "resolve"]
            /\ UNCHANGED result
    /\ UNCHANGED <<now, storevars, feed_id, video_arg, video_id, item, count, key,
                   expires, info, trace, started, sel>>

\* _resolve up to extract_info: the engine is asked for the formats of the
\* URL and answers with them or raises.
_resolve(p) ==
    /\ pc[p] = "resolve"
    /\ trace' = [trace EXCEPT ![p] = Append(@, "extract_info")]
    /\ \/ \E reply \in EngineReplies(item[p].provider) :
            /\ info' = [info EXCEPT ![p] = reply]
            /\ pc' = [pc EXCEPT ![p] = "choose_url"]
            /\ UNCHANGED result
       \/ /\ Finish(p, Raise("DownloadError"))
          /\ UNCHANGED info
    /\ UNCHANGED <<now, storevars, feed_id, video_arg, video_id, item, count, key,
                   expires, url, started, sel>>

\* The choice of the URL with the quality taken from the call's count: a
\* choice that reads more than the formats and the stored preferences.
choose_by_count(p) ==
    /\ pc[p] = "choose_url"
    /\ Finish(p, choose_url(info[p],
                            [item[p] EXCEPT !.quality =
                                IF count[p] % 2 = 0 THEN "high" ELSE "low"]))
    /\ UNCHANGED <<now, storevars, feed_id, video_arg, video_id, item, count, key,
                   expires, url, info, trace, started, sel>>

\* _resolve after extract_info: the choice of the URL, which download returns.
choose(p) ==
    /\ pc[p] = "choose_url"
    /\ Finish(p, choose_url(info[p], item[p]))
    /\ UNCHANGED <<now, storevars, feed_id, video_arg, video_id, item, count, key,
                   expires, url, info, trace, started, sel>>

\* The caller has the result; the next request can come.
return(p) ==
    /\ pc[p] = "done"
    /\ pc' = [pc EXCEPT ![p] = "idle"]
    /\ feed_id' = [feed_id EXCEPT ![p] = ""]
    /\ video_arg' = [video_arg EXCEPT ![p] = <<>>]
    /\ video_id' = [video_id EXCEPT ![p] = <<>>]
    /\ item' = [item EXCEPT ![p] = NoItem]
    /\ count' = [count EXCEPT ![p] = 0]
    /\ key' = [key EXCEPT ![p] = NoKey]
    /\ expires' = [expires EXCEPT ![p] = -1]
    /\ url' = [url EXCEPT ![p] = NoUrl]
    /\ info' = [info EXCEPT ![p] = NoInfo]
    /\ result' = [result EXCEPT ![p] = NoResult]
    /\ trace' = [trace EXCEPT ![p] = <<>>]
    /\ UNCHANGED <<now, storevars, started, sel>>

\* Time passes.
Tick ==
    /\ now < MaxNow
    /\ now' = now + 1
    /\ UNCHANGED <<storevars, callvars, started, sel>>

Next ==
    \/ \E p \in Procs, r \in Requests : download(p, r[1], r[2])
    \/ \E p \in Procs : _get_metadata(p)
    \/ \E p \in Procs : _update_resolve_counter(p)
    \/ \E p \in Procs : check_quota(p)
    \/ \E p \in Procs : _resolve(p)
    \/ \E p \in Procs : choose(p)
    \/ \E p \in Procs : return(p)
    \/ Tick

Spec == Init /\ [][Next]_vars

(***************************************************************************)
(* Properties of download (Spec).                                          *)
(***************************************************************************)
\* The call has updated its counter record.
Counted(p) == key[p] # NoKey
\* The call has made its quota check.
Checked(p) == Counted(p) /\ pc[p] # "check_quota"
\* The call ended with QuotaExceeded.
Rejected(p) == pc[p] = "done" /\ result[p].err = "QuotaExceeded"
\* The call made its quota check and went on.
PassedQuota(p) == Checked(p) /\ ~Rejected(p)
Extracted(p) == \E i \in 1..Len(trace[p]) : trace[p][i] = "extract_info"
IsPrefix(s, t) == Len(s) <= Len(t) /\ SubSeq(t, 1, Len(s)) = s

\* C1: the attempt of an anonymous feed (featurelevel 0) that got count k
\* passes the quota check iff k <= 100, and fails with QuotaExceeded
\* otherwise; an attempt of a feed with featurelevel > 0 never fails with
\* QuotaExceeded.
C1_QuotaRule ==
    \A p \in Procs :
        Checked(p) =>
            /\ item[p].featurelevel = 0 =>
                   /\ PassedQuota(p) <=> count[p] <= 100
                   /\ Rejected(p) <=> count[p] >= 101
            /\ item[p].featurelevel > 0 => ~Rejected(p)

\* The 100th attempt of an anonymous feed has passed, the 101st has failed.
C1_Witness ==
    \E p, q \in Procs :
        /\ item[p].featurelevel = 0 /\ count[p] = 100 /\ PassedQuota(p)
        /\ item[q].featurelevel = 0 /\ count[q] = 101 /\ Rejected(q)

\* C2: the record of a key holds as Count the number of updates of the key in
\* the day and as Expires the :ttl of the first of them; each update returns
\* its own ordinal.
C2_CounterExact ==
    \A k \in Keys :
        /\ k \in DOMAIN counter_table <=> calls[k] > 0
        /\ k \in DOMAIN counter_table =>
               /\ counter_table[k].Count = calls[k]
               /\ counter_table[k].Expires = first_expires[k]
        /\ returned[k] # <<>> =>
               returned[k][Len(returned[k])] = calls[k]

\* Two calls made the two updates of a record at different ticks: the record
\* has Count 2 and the :ttl of the first.
C2_Witness ==
    \E p, q \in Procs :
        /\ Counted(p) /\ key[q] = key[p]
        /\ count[p] = 1 /\ count[q] = 2
        /\ expires[q] # expires[p]
        /\ calls[key[p]] = 2
        /\ counter_table[key[p]].Count = 2
        /\ counter_table[key[p]].Expires = expires[p]

\* C3: the updates of a key return consecutive counts, starting one above the
\* count before them, so no update is lost and no two calls hold the same
\* count of a key.
C3_AtomicAdd ==
    /\ \A k \in Keys :
           \A i \in 1..Len(returned[k]) :
               returned[k][i] = (calls[k] - Len(returned[k])) + i
    /\ \A p, q \in Procs :
           (p # q /\ Counted(p) /\ key[p] = key[q]) => count[p] # count[q]

\* Two calls for the same feed and day are both between their update and
\* their quota check.
C3_Witness ==
    \E p, q \in Procs :
        /\ p # q
        /\ pc[p] = "check_quota" /\ pc[q] = "check_quota"
        /\ key[p] = key[q]
        /\ count[q] = count[p] + 1

\* C4: a call reads the metadata, then updates the counter, then calls the
\* engine; the engine is called only with the metadata read and the quota
\* check passed, never by a call that ends with QuotaExceeded.
C4_FixedOrder ==
    \A p \in Procs :
        /\ IsPrefix(trace[p], <<"get_item", "update_item", "extract_info">>)
        /\ Extracted(p) =>
               /\ item[p] # NoItem
               /\ Counted(p)
               /\ ~(count[p] > 100 /\ item[p].featurelevel = 0)
        /\ Rejected(p) => ~Extracted(p)

\* A call was rejected after the metadata read and the counter update.
C4_Witness ==
    \E p \in Procs : Rejected(p) /\ trace[p] = <<"get_item", "update_item">>

\* C5: a call that ends with QuotaExceeded has updated the counter: its count
\* is one of the counts the record went through, and it is 101 or more.
C5_CountedBeforeCheck ==
    \A p \in Procs :
        Rejected(p) =>
            /\ Counted(p)
            /\ count[p] >= 101
            /\ counter_table[key[p]].Count >= count[p]
            /\ \E i \in 1..Len(returned[key[p]]) :
                   returned[key[p]][i] = count[p]

\* The 101st attempt was rejected and the counter went on to 102.
C5_Witness ==
    \E p \in Procs :
        /\ Rejected(p)
        /\ count[p] = 101
        /\ counter_table[key[p]].Count = 102

\* The video id with everything from its last dot on removed.
StripSuffix(v) == IF RFind(v, ".") = 0 THEN v ELSE SubSeq(v, 1, RFind(v, ".") - 1)

\* C6: a call whose video id is empty once its file-extension suffix is
\* removed ends with InvalidUsage and reaches no store and no engine.
C6_EmptyVideoIdRejected ==
    \A p \in Procs :
        (pc[p] # "idle" /\ StripSuffix(video_arg[p]) = <<>>) =>
            /\ trace[p] = <<>>
            /\ pc[p] = "done" /\ result[p].err = "InvalidUsage"

\* C7: a call whose metadata names an unknown provider ends with
\* InvalidUsage, the engine not called.
C7_UnknownProviderInvalidUsage ==
    \A p \in Procs :
        (/\ pc[p] = "done"
         /\ item[p] # NoItem
         /\ item[p].provider \notin {"youtube", "vimeo"}
         /\ ~Rejected(p)) =>
            /\ result[p].err = "InvalidUsage"
            /\ ~Extracted(p)

\* The call has run the choice of the URL on what the engine returned.
Chose(p) == pc[p] = "done" /\ info[p] # NoInfo

NoRecord == [Count |-> 0, Expires |-> -1]
RecordOf(k) == IF k \in DOMAIN counter_table THEN counter_table[k] ELSE NoRecord
RecordOfNext(k) == IF k \in DOMAIN counter_table' THEN counter_table'[k] ELSE NoRecord

\* C13: the record of (feed, day) changes only by the update of a call for
\* that feed made on that day; a record starts with Count 1 whatever the
\* records of other days and feeds hold; and a call is rejected only on the
\* count of its own feed and day.
C13_PerFeedPerDay ==
    [][/\ \A k \in Keys :
            /\ RecordOfNext(k) # RecordOf(k) =>
                   \E p \in Procs :
                       /\ pc[p] = "update_counter" /\ pc'[p] = "check_quota"
                       /\ feed_id[p] = k[1]
                       /\ now \div TicksPerDay = k[2]
            /\ (RecordOf(k) = NoRecord /\ RecordOfNext(k) # NoRecord) =>
                   RecordOfNext(k).Count = 1
       /\ \A p \in Procs :
            (pc[p] = "check_quota" /\ result'[p].err = "QuotaExceeded") =>
                /\ key[p] = <<feed_id[p], key[p][2]>>
                /\ RecordOf(key[p]).Count > 100
                /\ count[p] > 100]_vars

\* A feed rejected on day 0 passed the quota check on day 1 with count 1.
C13_Witness ==
    \E p, q \in Procs :
        /\ Rejected(p) /\ key[p] = <<feed_id[p], 0>>
        /\ feed_id[q] = feed_id[p] /\ key[q] = <<feed_id[p], 1>>
        /\ count[q] = 1 /\ PassedQuota(q)

\* C14: a call for a feed the Feeds table has no record of ends with the
\* typed error InvalidUsage or NotFound, before the counter update and the
\* call of the engine.
C14_MissingFeedTypedError ==
    \A p \in Procs :
        (/\ pc[p] = "done"
         /\ feed_id[p] # ""
         /\ feed_id[p] \notin DOMAIN FeedsTable
         /\ splitext(video_arg[p]) # <<>>) =>
            /\ result[p].err \in {"InvalidUsage", "NotFound"}
            /\ ~Counted(p)
            /\ ~Extracted(p)

\* How often a call made an outside call.
Occurs(t, e) == Cardinality({i \in 1..Len(t) : t[i] = e})

\* The locations the engine reported.
Locations(i) ==
    {i.formats[n].url : n \in 1..Len(i.formats)}
        \cup {i.formats[n].fragment_base_url : n \in 1..Len(i.formats)}

\* C15: a call makes each outside call at most once; it ends with an error
\* and no URL, or with a URL the engine reported and no error; an exception
\* of the engine ends the call with that exception.
C15_FailFast ==
    \A p \in Procs :
        /\ Occurs(trace[p], "get_item") <= 1
        /\ Occurs(trace[p], "update_item") <= 1
        /\ Occurs(trace[p], "extract_info") <= 1
        /\ pc[p] # "done" => result[p] = NoResult
        /\ pc[p] = "done" =>
               /\ result[p].err # "pending"
               /\ result[p].err # "none" => result[p].url = NoUrl
               /\ result[p].err = "none" =>
                      /\ result[p].url # Absent
                      /\ result[p].url \in Locations(info[p])
               /\ (Extracted(p) /\ info[p] = NoInfo) =>
                      result[p].err = "DownloadError"

\* One call ended with the exception of the engine, another with the
\* exception of the choice among the formats the engine returned.
C15_Witness ==
    \E p, q \in Procs :
        /\ pc[p] = "done" /\ Extracted(p) /\ info[p] = NoInfo
        /\ result[p] = Raise("DownloadError")
        /\ Chose(q) /\ result[q].err \in {"StopIteration", "IndexError", "KeyError"}
        /\ trace[q] = <<"get_item", "update_item", "extract_info">>

\* C16: the calls of an anonymous feed that reach the engine hold counts of
\* at most 100, and no two of them the same count of a (feed, day): at most
\* 100 calls per feed and day reach the engine, under every interleaving.
C16_AtMostLimitExtract ==
    \A p \in Procs :
        (item[p].featurelevel = 0 /\ Extracted(p)) =>
            /\ count[p] \in 1..100
            /\ \A q \in Procs \ {p} :
                   (key[q] = key[p] /\ Extracted(q)) => count[q] # count[p]

\* Of two calls for the same feed and day the one with count 100 reached the
\* engine and the one with count 101 was rejected before it.
C16_Witness ==
    \E p, q \in Procs :
        /\ item[p].featurelevel = 0
        /\ key[q] = key[p]
        /\ count[p] = 100 /\ Extracted(p)
        /\ count[q] = 101 /\ Rejected(q) /\ ~Extracted(q)

\* C17: a call is counted once it has its metadata and has gone through the
\* update, and only then; the Count of a key grows by one exactly in the
\* update step of a call for it, whatever the tier, and no other step of any
\* call changes it.
C17_CountedOnce ==
    /\ [](\A p \in Procs :
            /\ Counted(p) <=> (item[p] # NoItem /\ pc[p] # "update_counter")
            /\ Counted(p) <=> Occurs(trace[p], "update_item") = 1)
    /\ [][\A k \in Keys :
            /\ RecordOfNext(k).Count >= RecordOf(k).Count
            /\ RecordOfNext(k).Count = RecordOf(k).Count + 1 <=>
                   \E p \in Procs :
                       /\ pc[p] = "update_counter" /\ pc'[p] = "check_quota"
                       /\ key'[p] = k
            /\ RecordOfNext(k).Count # RecordOf(k).Count =>
                   RecordOfNext(k).Count = RecordOf(k).Count + 1]_vars

\* A rejected call of the anonymous feed and a failed call of the paid feed
\* are both in the counts, the paid feed's above 100.
C17_Witness ==
    \E p, q \in Procs :
        /\ Rejected(p) /\ counter_table[key[p]].Count = count[p]
        /\ item[q].featurelevel > 0 /\ count[q] > 100
        /\ pc[q] = "done" /\ result[q].err \notin {"none", "QuotaExceeded"}
        /\ counter_table[key[q]].Count = count[q]

(***************************************************************************)
(* The selection alone (SelSpec): choose_url applied to every list of up   *)
(* to MaxFormats formats the engine can report and every stored format and *)
(* quality.  The i-th format of a list has its own url and fragment base   *)
(* URL, so that a result names the format it came from.                    *)
(***************************************************************************)
StoredFormats == {"video", "audio", "flac"}
StoredQualities == {"high", "low", "medium"}

\* What a youtube format can be: its container, its streams, its locations.
YtKinds ==
    [ext : {"mp4", "webm"},
     streams : {"audiovideo", "audio", "video"},
     loc : {"url", "fragment", "both"}]

\* What a vimeo format can be: its container, its format id, its width, its
\* locations.
VimeoKinds ==
    [ext : {"mp4"}, format_id : {Http720, Hls720}, width : {640, 1280, 1920},
     loc : {"url", "both"}]
    \cup [ext : {"webm"}, format_id : {Http720}, width : {640, 1280, 1920},
          loc : {"url", "both"}]

UrlAt(i) == <<"url", i>>
FragmentAt(i) == <<"fragment_base_url", i>>

YtFormat(kind, i) ==
    Format(kind.ext, <<"i", "d">>, 0,
           IF kind.streams = "audio" THEN "none" ELSE "avc1",
           IF kind.streams = "video" THEN "none" ELSE "mp4a",
           IF kind.loc = "fragment" THEN Absent ELSE UrlAt(i),
           IF kind.loc = "url" THEN Absent ELSE FragmentAt(i))

VimeoFormat(kind, i) ==
    Format(kind.ext, kind.format_id, kind.width, "avc1", "mp4a", UrlAt(i),
           IF kind.loc = "url" THEN Absent ELSE FragmentAt(i))

KindLists(kinds) == UNION {[1..n -> kinds] : n \in 0..MaxFormats}

Infos(provider) ==
    IF provider = "youtube"
    THEN {[formats |-> [i \in DOMAIN ks |-> YtFormat(ks[i], i)]] : ks \in KindLists(YtKinds)}
    ELSE {[formats |-> [i \in DOMAIN ks |-> VimeoFormat(ks[i], i)]] :
             ks \in KindLists(VimeoKinds)}

SelMetadata(x) ==
    [provider |-> x.provider, format |-> x.format, quality |-> x.quality,
     featurelevel |-> 0]

\* No call of download runs.
NoCalls ==
    /\ pc = [p \in Procs |-> "idle"]
    /\ feed_id = [p \in Procs |-> ""]
    /\ video_arg = [p \in Procs |-> <<>>]
    /\ video_id = [p \in Procs |-> <<>>]
    /\ item = [p \in Procs |-> NoItem]
    /\ count = [p \in Procs |-> 0]
    /\ key = [p \in Procs |-> NoKey]
    /\ expires = [p \in Procs |-> -1]
    /\ url = [p \in Procs |-> NoUrl]
    /\ info = [p \in Procs |-> NoInfo]
    /\ result = [p \in Procs |-> NoResult]
    /\ trace = [p \in Procs |-> <<>>]
    /\ started = 0

SelInit ==
    /\ now = 0
    /\ counter_table = <<>>
    /\ calls = [k \in Keys |-> 0]
    /\ first_expires = [k \in Keys |-> -1]
    /\ returned = [k \in Keys |-> <<>>]
    /\ NoCalls
    /\ \E provider \in {"youtube", "vimeo"} :
         \E i \in Infos(provider), f \in StoredFormats, q \in StoredQualities :
           sel = [pc |-> "ready", provider |-> provider, info |-> i,
                  format |-> f, quality |-> q, result |-> NoResult]

\* The dispatch of _resolve and the strategy it calls, on the given input.
Select ==
    /\ sel.pc = "ready"
    /\ sel' = [sel EXCEPT !.pc = "done",
                          !.result = choose_url(sel.info, SelMetadata(sel))]
    /\ UNCHANGED <<now, storevars, callvars, started>>

SelNext == Select

SelSpec == SelInit /\ [][SelNext]_vars

(***************************************************************************)
(* Properties of the selection (SelSpec).                                  *)
(***************************************************************************)
SelDone == sel.pc = "done"
SelFormats == sel.info.formats
Recognized == sel.format \in {"video", "audio"} /\ sel.quality \in {"high", "low"}

\* C8 as claimed: a stored format outside {video, audio} or a stored quality
\* outside {high, low} makes the selection fail with InvalidUsage.
C8_UnrecognizedRejected ==
    (SelDone /\ ~Recognized) => sel.result.err = "InvalidUsage"

\* C8 as the code has it: no selection fails with InvalidUsage; the youtube
\* strategy takes a format other than video for audio, both strategies take a
\* quality other than high for low, and the result is the one of these
\* defaults.
C8_PermissiveDefault ==
    SelDone =>
        /\ sel.result.err # "InvalidUsage"
        /\ sel.result =
               choose_url(sel.info,
                          [provider |-> sel.provider,
                           format |-> IF sel.format = "video" THEN "video" ELSE "audio",
                           quality |-> IF sel.quality = "high" THEN "high" ELSE "low",
                           featurelevel |-> 0])

\* A youtube selection with an unknown format and quality returned the URL
\* of an audio-only format, the first of two.
C8_Witness ==
    /\ SelDone
    /\ sel.provider = "youtube"
    /\ sel.format = "flac" /\ sel.quality = "medium"
    /\ Len(SelFormats) = 3
    /\ SelFormats[1].vcodec = "none" /\ SelFormats[1].fragment_base_url = Absent
    /\ SelFormats[2].vcodec = "none"
    /\ SelFormats[3].vcodec # "none" /\ SelFormats[3].ext = "mp4"
    /\ sel.result = Ok(UrlAt(1))

\* The formats that pass the vimeo filter.
VimeoPassing ==
    {i \in 1..Len(SelFormats) :
        SelFormats[i].ext = "mp4" /\ startswith(SelFormats[i].format_id, HttpPrefix)}

\* C9: the vimeo strategy returns the url of an mp4 format whose id starts
\* with "http-": one of the widest of them for quality high, one of the
\* narrowest of them for quality low; it fails when there is no such format.
C9_VimeoWidest ==
    (SelDone /\ sel.provider = "vimeo") =>
        IF VimeoPassing = {}
        THEN sel.result.err \notin {"none", "pending"} /\ sel.result.url = NoUrl
        ELSE \E i \in VimeoPassing :
                /\ sel.result = Ok(SelFormats[i].url)
                /\ sel.quality = "high" =>
                       \A j \in VimeoPassing : SelFormats[j].width <= SelFormats[i].width
                /\ sel.quality = "low" =>
                       \A j \in VimeoPassing : SelFormats[j].width >= SelFormats[i].width

\* Widths 1920, 1280, 640, all mp4 over http: quality high got the first.
C9_Witness ==
    /\ SelDone
    /\ sel.provider = "vimeo"
    /\ sel.quality = "high"
    /\ Len(SelFormats) = 3
    /\ VimeoPassing = {1, 2, 3}
    /\ SelFormats[1].width = 1920 /\ SelFormats[2].width = 1280
    /\ SelFormats[3].width = 640
    /\ sel.result = Ok(UrlAt(1))

\* The formats the youtube rule of the stored format ranks: the mp4 formats
\* with a video and an audio stream for video, the formats without a video
\* stream for audio.
YtRanked ==
    {i \in 1..Len(SelFormats) :
        IF sel.format = "video"
        THEN /\ SelFormats[i].ext = "mp4"
             /\ SelFormats[i].vcodec # "none" /\ SelFormats[i].acodec # "none"
        ELSE SelFormats[i].vcodec = "none"}

Location(x) == IF x.fragment_base_url # Absent THEN x.fragment_base_url ELSE x.url

\* C10: for a recognized format and quality the youtube strategy returns the
\* location of the best (quality high) or worst (quality low) format its rule
\* ranks, the engine listing formats from worst to best; it fails when the
\* rule ranks no format.
C10_YoutubeRule ==
    (SelDone /\ sel.provider = "youtube" /\ Recognized) =>
        IF YtRanked = {}
        THEN sel.result.err \notin {"none", "pending"} /\ sel.result.url = NoUrl
        ELSE \E i \in YtRanked :
                /\ sel.result = Ok(Location(SelFormats[i]))
                /\ sel.quality = "high" => \A j \in YtRanked : j <= i
                /\ sel.quality = "low" => \A j \in YtRanked : j >= i

\* Of two mp4 formats with both streams and an audio-only one, (video, high)
\* got the later mp4 format.
C10_Witness ==
    /\ SelDone
    /\ sel.provider = "youtube"
    /\ sel.format = "video" /\ sel.quality = "high"
    /\ YtRanked = {1, 2}
    /\ Len(SelFormats) = 3
    /\ SelFormats[2].fragment_base_url = Absent
    /\ sel.result = Ok(UrlAt(2))

\* The format the youtube rule selects: the last ranked one for quality
\* high, the first ranked one otherwise.
YtChosen ==
    IF sel.quality = "high"
    THEN CHOOSE i \in YtRanked : \A j \in YtRanked : j <= i
    ELSE CHOOSE i \in YtRanked : \A j \in YtRanked : j >= i

\* C11: the youtube strategy returns the fragment base URL of the format it
\* selects when the format has one, with or without a url, and the url of
\* the format only when it has no fragment base URL.
C11_FragmentBaseFirst ==
    (SelDone /\ sel.provider = "youtube" /\ YtRanked # {}) =>
        /\ SelFormats[YtChosen].fragment_base_url # Absent =>
               sel.result = Ok(SelFormats[YtChosen].fragment_base_url)
        /\ SelFormats[YtChosen].fragment_base_url = Absent =>
               sel.result = Ok(SelFormats[YtChosen].url)

\* The selected format has a fragment base URL and no url: the fragment base
\* URL was returned.
C11_Witness ==
    /\ SelDone
    /\ sel.provider = "youtube"
    /\ YtRanked # {}
    /\ SelFormats[YtChosen].url = Absent
    /\ SelFormats[YtChosen].fragment_base_url = FragmentAt(YtChosen)
    /\ sel.result = Ok(FragmentAt(YtChosen))

\* The format the vimeo strategy takes, by the quality alone: for quality
\* high the first of the widest formats that pass the filter, otherwise the
\* last of the narrowest.
VimeoChosen ==
    IF sel.quality = "high"
    THEN CHOOSE i \in VimeoPassing :
             \A j \in VimeoPassing :
                 \/ SelFormats[j].width < SelFormats[i].width
                 \/ SelFormats[j].width = SelFormats[i].width /\ i <= j
    ELSE CHOOSE i \in VimeoPassing :
             \A j \in VimeoPassing :
                 \/ SelFormats[j].width > SelFormats[i].width
                 \/ SelFormats[j].width = SelFormats[i].width /\ j <= i

\* C18: the result of the vimeo strategy is fixed by the format list and the
\* quality, whatever the stored format: the url key of the format taken,
\* never its fragment base URL, and IndexError when no format passes.
C18_VimeoIgnoresFormat ==
    (SelDone /\ sel.provider = "vimeo") =>
        IF VimeoPassing = {}
        THEN sel.result = Raise("IndexError")
        ELSE sel.result = Ok(UrlAt(VimeoChosen))

\* A vimeo feed with format audio got the url of a format that also has a
\* fragment base URL.
C18_Witness ==
    /\ SelDone
    /\ sel.provider = "vimeo"
    /\ sel.format = "audio"
    /\ Cardinality(VimeoPassing) >= 2
    /\ SelFormats[VimeoChosen].fragment_base_url = FragmentAt(VimeoChosen)
    /\ sel.result = Ok(UrlAt(VimeoChosen))

====
